---- MODULE Spec2Model ----
(***************************************************************************)
(* A model of exhibition_controller.py: the ExhibitionController object,   *)
(* its constructor (auto_detect_paths, setup_directories, setup_cleanup),  *)
(* the main thread of run(), the background generation thread              *)
(* (generation_loop / generate_object) and the cleanup routine.            *)
(*                                                                         *)
(* Three specifications:                                                   *)
(*   SpecInit  the constructor, applied to every input configuration and   *)
(*             every outcome of the directory searches;                    *)
(*   SpecPrompts  load_prompts and generate_random_prompt, applied to every *)
(*             prompt file of a bounded size;                              *)
(*   Spec      run(), starting from the state after construction, with the *)
(*             main thread, the generation thread and the external         *)
(*             processes interleaved.                                      *)
(*                                                                         *)
(* Text is modelled as follows: a prompt is the sequence of its words (the *)
(* f-string of line 299 joins them by single spaces), a path is a string,  *)
(* a file's content is the number of the cycle whose tool wrote it.        *)
(***************************************************************************)
EXTENDS Integers, Sequences, FiniteSets, TLC

\* ------------------------------------------------------------------ bounds

\* Number of generation cycles the generation thread may start.
MaxCycles == 2

\* ------------------------------------------------------- configuration keys

Absent == "<absent>"
NoneVal == "<None>"
Auto == "auto"
EmptyStr == ""

Keys ==
  {"pointe_dir", "viewer_dir", "viewer_models_dir", "pointe_env", "env_type", "temp_dir"}

\* dict.get(k) of a key that is missing gives None; `not v` holds of None and "".
Truthy(v) == v \notin {Absent, NoneVal, EmptyStr}

\* `not self.config.get(k) or self.config[k] == "auto"` (lines 80, 90, 101, 113)
NeedsDetect(cfg, k) == ~Truthy(cfg[k]) \/ cfg[k] = Auto

\* The values an input configuration file may give to a key.
KeyDomain(k) ==
  IF k = "env_type" THEN {Absent, "conda", "system"}
  ELSE IF k = "viewer_models_dir" THEN {Absent, "/custom/models"}
  ELSE {Absent, Auto, EmptyStr, "/custom"}

InputConfigs ==
  { [k \in Keys |->
       CASE k = "pointe_dir" -> a
         [] k = "viewer_dir" -> b
         [] k = "viewer_models_dir" -> c
         [] k = "pointe_env" -> d
         [] k = "env_type" -> e
         [] OTHER -> f ] :
    a \in KeyDomain("pointe_dir"), b \in KeyDomain("viewer_dir"),
    c \in KeyDomain("viewer_models_dir"), d \in KeyDomain("pointe_env"),
    e \in KeyDomain("env_type"), f \in KeyDomain("temp_dir") }

\* Outcomes of the searches and of the operator's input.
FoundPointe == {NoneVal, "/found/point-e"}
FoundViewer == {NoneVal, "/found/local3dviewer"}
FoundEnv == {NoneVal, "/found/envs/pointe"}
EnvTypes == {"conda", "venv", "unknown"}
OperatorInputs == {EmptyStr, "/typed"}
Systems == {"Windows", "Linux"}

Detections ==
  [pointe : FoundPointe, viewer : FoundViewer, env : FoundEnv, envType : EnvTypes,
   pointeInput : OperatorInputs, viewerInput : OperatorInputs, system : Systems]

\* str(viewer_dir / 'models') (line 94)
ModelsDirOf(viewerDir) == IF viewerDir = "/found/local3dviewer"
                          THEN "/found/local3dviewer/models"
                          ELSE "/custom/models"

\* request_path: the operator's input is stored verbatim under the key.
request_path(cfg, key, input) == [cfg EXCEPT ![key] = input]

\* lines 80-87
DetectPointe(cfg, det) ==
  IF NeedsDetect(cfg, "pointe_dir")
  THEN IF det.pointe # NoneVal
       THEN [cfg EXCEPT !["pointe_dir"] = det.pointe]
       ELSE request_path(cfg, "pointe_dir", det.pointeInput)
  ELSE cfg

\* lines 90-98
DetectViewer(cfg, det) ==
  IF NeedsDetect(cfg, "viewer_dir")
  THEN IF det.viewer # NoneVal
       THEN [cfg EXCEPT !["viewer_dir"] = det.viewer,
                        !["viewer_models_dir"] = ModelsDirOf(det.viewer)]
       ELSE request_path(cfg, "viewer_dir", det.viewerInput)
  ELSE cfg

\* lines 101-110
DetectEnv(cfg, det) ==
  IF NeedsDetect(cfg, "pointe_env")
  THEN IF det.env # NoneVal
       THEN [cfg EXCEPT !["pointe_env"] = det.env, !["env_type"] = det.envType]
       ELSE [cfg EXCEPT !["pointe_env"] = NoneVal, !["env_type"] = "system"]
  ELSE cfg

\* lines 113-118
DetectTemp(cfg, det) ==
  IF NeedsDetect(cfg, "temp_dir")
  THEN [cfg EXCEPT !["temp_dir"] =
          IF det.system = "Windows" THEN "~/AppData/Local/Temp/exhibition"
          ELSE "/tmp/exhibition"]
  ELSE cfg

\* auto_detect_paths: the four sections in order (save_config writes a file
\* and leaves the mapping alone).
auto_detect_paths(cfg, det) ==
  DetectTemp(DetectEnv(DetectViewer(DetectPointe(cfg, det), det), det), det)

\* The configuration the run starts from: every path resolved.
ResolvedConfig ==
  [k \in Keys |->
     CASE k = "pointe_dir" -> "/found/point-e"
       [] k = "viewer_dir" -> "/found/local3dviewer"
       [] k = "viewer_models_dir" -> "/found/local3dviewer/models"
       [] k = "pointe_env" -> "/found/envs/pointe"
       [] k = "env_type" -> "venv"
       [] OTHER -> "/tmp/exhibition"]

\* ------------------------------------------------------------ the run state

VARIABLES
  config,        \* self.config
  configBefore,  \* the configuration as load_config read it (history)
  initPc,        \* position in __init__
  promptsFile,   \* the prompt file load_prompts reads
  prompts,       \* self.prompts
  running,       \* self.running
  processes,     \* self.processes: the tracked handles, in append order
  procState,     \* the state of every OS process the controller spawned
  sentTerm,      \* processes that were sent terminate()
  sentKill,      \* processes that were sent kill()
  mainPc,        \* position of the main thread in run()
  cleanupCalls,  \* completed calls of cleanup
  genPc,         \* position of the generation thread
  cycle,         \* number of calls of generate_object so far
  clock,         \* wall clock, in seconds
  ts,            \* generate_object's timestamp
  prompt,        \* generate_object's prompt
  tempDir,       \* the files of config['temp_dir']: name -> content (0: no file)
  published,     \* model1.obj, model1.mtl, last_prompt.txt of viewer_models_dir
  toolPrompt,    \* the --prompt argument of the last spawned generation tool (history)
  stages,        \* the stages that ended in this cycle, with exit codes (history)
  lastResult,    \* how the last call of generate_object ended (history)
  pubAtStart,    \* the published files when this cycle started (history)
  slept,         \* a full sleep elapsed since generate_object last returned (history)
  active         \* the cycles in flight (history)

cfgVars == <<config, configBefore, initPc, promptsFile>>
mainVars == <<running, processes, procState, sentTerm, sentKill, mainPc, cleanupCalls>>
genVars == <<genPc, cycle, clock, ts, prompt, toolPrompt, stages, lastResult,
             pubAtStart, slept, active>>
fileVars == <<tempDir, published>>
vars == <<cfgVars, prompts, mainVars, genVars, fileVars>>

\* The process started by start_viewer_server; the generation tool of cycle c
\* is process c.
ServerProc == 0
ProcIds == 0 .. MaxCycles

ExitCodes == {0, 1}

\* ------------------------------------------------------------------ prompts

\* load_prompts appends one element to each sequence per accepted row, so
\* the three sequences have the same length.
LoadedPrompts ==
  [Descriptions |-> <<"a swirling", "a tall">>,
   Materials |-> <<"ceramic", "ceramic">>,
   Objects |-> <<"vase", "vase">>]
NoPrompts == [Descriptions |-> <<>>, Materials |-> <<>>, Objects |-> <<>>]
PromptTables == {LoadedPrompts, NoPrompts}

Range(s) == {s[i] : i \in DOMAIN s}

\* A cell of the prompt file is <<leading blanks, text, trailing blanks>>;
\* str.strip() keeps the text.
strip(cell) == cell[2]

\* str.lower() on the header texts of the model.
lower(s) ==
  CASE s = "DESCRIPTIONS" -> "descriptions"
    [] s = "Description" -> "description"
    [] s = "Material" -> "material"
    [] s = "Object" -> "object"
    [] s = "Notes" -> "notes"
    [] OTHER -> s

\* str.startswith(prefix) on the lowered header texts.
startswith(s, prefix) ==
  CASE prefix = "description" -> s \in {"description", "descriptions"}
    [] prefix = "material" -> s = "material"
    [] prefix = "object" -> s = "object"
    [] OTHER -> FALSE

\* Lines 43-51: the index of the first header whose cleaned text starts with
\* the prefix, 0 when there is none (None in the code).
FirstIndex(header, prefix) ==
  LET S == {i \in DOMAIN header : startswith(lower(strip(header[i])), prefix)}
  IN IF S = {} THEN 0 ELSE CHOOSE i \in S : \A j \in S : i <= j

Max3(a, b, c) == IF a >= b /\ a >= c THEN a ELSE IF b >= c THEN b ELSE c

\* A row is taken whatever its cells hold, as long as it is long enough.
RowAccepted_NoBlankCheck(row, di, mi, oi) == Len(row) > Max3(di, mi, oi) - 1

\* Lines 57-61, indices from 1: the row reaches the three columns and none
\* of the three cells is blank after strip().
RowAccepted(row, di, mi, oi) ==
  /\ Len(row) > Max3(di, mi, oi) - 1
  /\ strip(row[di]) # ""
  /\ strip(row[mi]) # ""
  /\ strip(row[oi]) # ""

\* Lines 55-64: the rows from index i on, appended to the three sequences.
RECURSIVE AppendRows(_, _, _, _, _, _)
AppendRows(rows, i, pr, di, mi, oi) ==
  IF i > Len(rows)
  THEN pr
  ELSE AppendRows(rows, i + 1,
         IF RowAccepted(rows[i], di, mi, oi)
         THEN [Descriptions |-> Append(pr.Descriptions, strip(rows[i][di])),
               Materials |-> Append(pr.Materials, strip(rows[i][mi])),
               Objects |-> Append(pr.Objects, strip(rows[i][oi]))]
         ELSE pr,
         di, mi, oi)

\* load_prompts (lines 31-68).  A file that cannot be opened raises inside
\* the try and leaves the three sequences empty; so does a file without a
\* header row or without one of the three columns.
load_prompts(file) ==
  IF ~file.exists \/ file.header = <<>>
  THEN NoPrompts
  ELSE LET di == FirstIndex(file.header, "description")
           mi == FirstIndex(file.header, "material")
           oi == FirstIndex(file.header, "object")
       IN IF di = 0 \/ mi = 0 \/ oi = 0
          THEN NoPrompts
          ELSE AppendRows(file.rows, 1, NoPrompts, di, mi, oi)

\* Bound of the prompt files: the number of data rows.
MaxRows == 2

MissingFile == [exists |-> FALSE, header |-> <<>>, rows |-> <<>>]

HeaderCells ==
  {<<" ", "DESCRIPTIONS", "">>, <<"", "Material", " ">>, <<"", "Object", "">>,
   <<"", "Notes", "">>}
\* The header rows: the header cells in every order, any of them left out.
Headers ==
  {h \in UNION {[1 .. n -> HeaderCells] : n \in 0 .. Cardinality(HeaderCells)} :
     \A i, j \in DOMAIN h : h[i] = h[j] => i = j}

\* The text of the cell in row r, column c: every cell its own text.
CellTexts ==
  << <<"r1c1", "r1c2", "r1c3", "r1c4", "r1c5">>,
     <<"r2c1", "r2c2", "r2c3", "r2c4", "r2c5">>,
     <<"r3c1", "r3c2", "r3c3", "r3c4", "r3c5">> >>
Blank == <<" ", "", "">>
Filled(r, c) == <<" ", CellTexts[r][c], " ">>

RowsOfWidth(r, w) ==
  {[c \in 1 .. w |-> IF c \in S THEN Filled(r, c) ELSE Blank] : S \in SUBSET (1 .. w)}

\* Row r under header h: as wide as the header with any of its cells blank,
\* or one cell short with every cell filled.
DataRows(h, r) ==
  RowsOfWidth(r, Len(h)) \cup
  (IF Len(h) > 0 THEN {[c \in 1 .. Len(h) - 1 |-> Filled(r, c)]} ELSE {})

RECURSIVE RowListsOfLen(_, _)
RowListsOfLen(h, n) ==
  IF n = 0 THEN {<<>>}
  ELSE {Append(rs, row) : rs \in RowListsOfLen(h, n - 1), row \in DataRows(h, n)}

RowLists(h) == UNION {RowListsOfLen(h, n) : n \in 0 .. MaxRows}

\* The prompt files with header row h, and the file that is not there.
PromptFiles(h) ==
  {MissingFile} \cup {[exists |-> TRUE, header |-> h, rows |-> rs] : rs \in RowLists(h)}

\* The prompt file of the run: two rows under Description, Material, Object.
ScenarioFile ==
  [exists |-> TRUE,
   header |-> << <<"", "Description", "">>, <<"", "Material", "">>, <<"", "Object", "">> >>,
   rows |-> << << <<"", "a swirling", "">>, <<"", "ceramic", "">>, <<"", "vase", "">> >>,
               << <<"", "a tall", "">>, <<"", "ceramic", "">>, <<"", "vase", "">> >> >>]
RunFiles == {ScenarioFile, MissingFile}

\* generate_random_prompt: the values it may return.
generate_random_prompt(pr) ==
  IF ~(pr.Descriptions # <<>> /\ pr.Materials # <<>> /\ pr.Objects # <<>>)
  THEN {<<"default object">>}
  ELSE {<<d, m, o>> : d \in Range(pr.Descriptions), m \in Range(pr.Materials),
                      o \in Range(pr.Objects)}

\* -------------------------------------------------------------------- files

Exts == {"npz", "ply", "obj"}
ConvertScript == <<"convert.py", 0, "py">>
FileNames == {<<"temp_", t, e>> : t \in 1 .. MaxCycles, e \in Exts} \cup {ConvertScript}

\* temp_pc = temp_dir / f"temp_{timestamp}.npz"
TempPc(t) == <<"temp_", t, "npz">>
with_suffix(n, e) == <<n[1], n[2], e>>

\* glob("temp_*")
HasTempPrefix(n) == n[1] = "temp_"

TempFiles(dir) == {n \in DOMAIN dir : HasTempPrefix(n) /\ dir[n] # 0}

\* A cleanup_temp whose glob matches the point-cloud files only.
cleanup_temp_NpzOnly(dir) ==
  [n \in DOMAIN dir |-> IF HasTempPrefix(n) /\ n[3] = "npz" THEN 0 ELSE dir[n]]

\* cleanup_temp: unlink every file the glob matches.
cleanup_temp(dir) == [n \in DOMAIN dir |-> IF HasTempPrefix(n) THEN 0 ELSE dir[n]]

WriteFile(dir, n, content) == [dir EXCEPT ![n] = content]

MtlContent == "# Default material newmtl default Ka 0.2 0.2 0.2 Kd 0.8 0.8 0.8 Ks 0.0 0.0 0.0 Ns 10.0 d 1.0 illum 1"
NothingPublished == [obj |-> 0, mtl |-> "", prompt |-> <<>>]

\* datetime.now().isoformat() and strftime("%Y%m%d_%H%M%S"): two renderings
\* of the clock, the second to the second.
isoformat(t) == <<"iso", t>>
strftime(t) == t

\* f"{datetime.now().isoformat()}\n{prompt}": the timestamp line, then the prompt.
PromptRecord(now, p) == <<isoformat(now), p>>

\* ------------------------------------------------------------ constructor

\* __init__ line 28: auto_detect_paths, for every outcome of the searches.
AutoDetectPaths ==
  /\ initPc = "loaded"
  /\ \E det \in Detections : config' = auto_detect_paths(config, det)
  /\ initPc' = "detected"
  /\ UNCHANGED <<configBefore, promptsFile, prompts, mainVars, genVars, fileVars>>

\* Path(self.config[k]): a missing key raises KeyError, None raises TypeError.
PathOk(cfg, k) == cfg[k] \notin {Absent, NoneVal}

\* __init__ line 29: setup_directories.
SetupDirectories ==
  /\ initPc = "detected"
  /\ initPc' = IF PathOk(config, "temp_dir") /\ PathOk(config, "viewer_models_dir")
               THEN "directories" ELSE "raised"
  /\ UNCHANGED <<config, configBefore, promptsFile, prompts, mainVars, genVars, fileVars>>

\* __init__ line 30: setup_cleanup registers the handlers.
SetupCleanup ==
  /\ initPc = "directories"
  /\ initPc' = "constructed"
  /\ UNCHANGED <<config, configBefore, promptsFile, prompts, mainVars, genVars, fileVars>>

\* ------------------------------------------------------------------ cleanup

\* What a running process does when it is sent terminate(): it exits within
\* the 5 s wait, or it does not and wait raises TimeoutExpired.  (terminate
\* and kill on a child of this process fail only when the child is gone,
\* which Popen swallows.)
Outcomes == {"exits", "timeout"}

\* The loop body without its try/except: TimeoutExpired leaves cleanup.
TerminateProcess_NoCatch(ps, p, o) ==
  IF ps.st[p] # "running"
  THEN [ps EXCEPT !.st[p] = "exited"]
  ELSE IF o = "exits"
       THEN [ps EXCEPT !.st[p] = "exited", !.term = @ \cup {p}]
       ELSE [ps EXCEPT !.term = @ \cup {p}, !.raised = TRUE]

\* cleanup lines 519-526 for one handle.  ps = [st, term, kill, raised].
\* terminate() of a process that ended returns at once (poll() reaps it).
TerminateProcess(ps, p, o) ==
  IF ps.st[p] # "running"
  THEN [ps EXCEPT !.st[p] = "exited"]
  ELSE IF o = "exits"
       THEN [ps EXCEPT !.st[p] = "exited", !.term = @ \cup {p}]
       ELSE [ps EXCEPT !.st[p] = "killed", !.term = @ \cup {p}, !.kill = @ \cup {p}]

\* cleanup line 518: for process in self.processes, from index i on; an
\* exception that leaves the body ends the loop.
RECURSIVE CleanupProcesses(_, _, _, _)
CleanupProcesses(procs, i, ps, oc) ==
  IF i > Len(procs) \/ ps.raised
  THEN ps
  ELSE CleanupProcesses(procs, i + 1, TerminateProcess(ps, procs[i], oc[procs[i]]), oc)

\* self.running = False (line 515)
ClearRunning(r) == FALSE

\* cleanup (lines 512-538), then the caller goes on at nextPc; an exception
\* leaving cleanup ends the main thread at "raised".
Cleanup(nextPc) ==
  \E oc \in [Range(processes) -> Outcomes] :
    LET ps0 == [st |-> procState, term |-> sentTerm, kill |-> sentKill, raised |-> FALSE]
        ps == CleanupProcesses(processes, 1, ps0, oc)
    IN /\ running' = ClearRunning(running)
       /\ procState' = ps.st
       /\ sentTerm' = ps.term
       /\ sentKill' = ps.kill
       /\ IF ps.raised
          THEN /\ mainPc' = "raised"
               /\ UNCHANGED <<tempDir, cleanupCalls>>
          ELSE /\ mainPc' = nextPc
               /\ tempDir' = cleanup_temp(tempDir)
               /\ cleanupCalls' = cleanupCalls + 1
       /\ UNCHANGED processes

\* -------------------------------------------------------------- main thread

\* run line 573: start_viewer_server spawns the file server and tracks it.
StartViewerServer ==
  /\ initPc = "constructed"
  /\ mainPc = "run"
  /\ procState' = [procState EXCEPT ![ServerProc] = "running"]
  /\ processes' = Append(processes, ServerProc)
  /\ mainPc' = "server_up"
  /\ UNCHANGED <<running, sentTerm, sentKill, cleanupCalls, cfgVars, prompts, genVars, fileVars>>

\* run lines 576-578: the generation thread starts at generation_loop.
StartGenThread ==
  /\ mainPc = "server_up"
  /\ mainPc' = "thread_up"
  /\ genPc' = "g_start"
  /\ UNCHANGED <<running, processes, procState, sentTerm, sentKill, cleanupCalls,
                 cfgVars, prompts, fileVars, cycle, clock, ts, prompt, toolPrompt,
                 stages, lastResult, pubAtStart, slept, active>>

\* run lines 581-588: open_browser, then the idle loop inside try.
OpenBrowser ==
  /\ mainPc = "thread_up"
  /\ mainPc' = "idle"
  /\ UNCHANGED <<running, processes, procState, sentTerm, sentKill, cleanupCalls,
                 cfgVars, prompts, genVars, fileVars>>

\* signal_handler (lines 237-242), on SIGINT or SIGTERM at any point of run:
\* running = False, cleanup(), sys.exit(0).  SystemExit raised inside the
\* try of run reaches its finally; elsewhere it leaves run.
SignalHandler ==
  /\ initPc = "constructed"
  /\ mainPc \in {"run", "server_up", "thread_up", "idle"}
  /\ Cleanup(IF mainPc = "idle" THEN "finally" ELSE "atexit")
  /\ UNCHANGED <<cfgVars, prompts, genVars, published>>

\* run line 596: finally: self.cleanup()
FinallyCleanup ==
  /\ mainPc = "finally"
  /\ Cleanup("atexit")
  /\ UNCHANGED <<cfgVars, prompts, genVars, published>>

\* the atexit hook (line 233): self.cleanup(), then the interpreter ends and
\* with it the daemon generation thread.
AtExitCleanup ==
  /\ mainPc = "atexit"
  /\ Cleanup("exited")
  /\ genPc' = IF genPc \in {"unstarted", "exited", "raised"} THEN genPc ELSE "killed"
  /\ active' = {}
  /\ UNCHANGED <<cfgVars, prompts, published, cycle, clock, ts, prompt, toolPrompt,
                 stages, lastResult, pubAtStart, slept>>

\* The file server ends on its own (the port is taken, it crashes).
ServerExits ==
  /\ procState[ServerProc] = "running"
  /\ procState' = [procState EXCEPT ![ServerProc] = "exited"]
  /\ UNCHANGED <<running, processes, sentTerm, sentKill, mainPc, cleanupCalls,
                 cfgVars, prompts, genVars, fileVars>>

\* -------------------------------------------------------- generation thread

\* The clock does not go back; strftime cuts it to the second, so two calls
\* of generate_object may read the same timestamp.
NextTimes(c) == IF c = 0 THEN {1} ELSE {c, c + 1}

\* `if process.returncode != 0: return False` (line 336)
PointCloudOk(rc) == rc = 0

\* A mesh check that lets every exit code through.
MeshOk_Ignored(rc) == TRUE

\* `if result.returncode != 0: return False` (line 346)
MeshOk(rc) == rc = 0

\* convert_ply_to_obj returning obj_path whatever the exit code.
ConvertOk_Always(rc) == TRUE

\* convert_ply_to_obj returns obj_path when the script exits 0, else None
\* (lines 402-407); generate_object goes on when it is not None (line 357).
ConvertOk(rc) == rc = 0

\* A loop that calls generate_object again without sleeping.
LoopNext_NoSleep(run) == IF run THEN "g_start" ELSE "exited"

\* `while self.running: time.sleep(interval)` (lines 440-441)
LoopNext(run) == IF run THEN "sleeping" ELSE "exited"

\* `if self.running: self.generate_object()` (lines 442-443)
PostSleepNext(run) == IF run THEN "g_start" ELSE "loop"

\* generate_object returns result to generation_loop.
Return(result) ==
  /\ genPc' = "loop"
  /\ lastResult' = result
  /\ active' = active \ {cycle}
  /\ slept' = FALSE

\* An exception leaves generate_object and generation_loop: the thread ends.
Raise ==
  /\ genPc' = "raised"
  /\ lastResult' = "raised"
  /\ active' = active \ {cycle}
  /\ slept' = FALSE

\* generate_object lines 303-326: the prompt, the timestamp, and Popen of the
\* generation tool in pointe_dir (Popen raises when that directory is gone).
GenStart ==
  /\ genPc = "g_start"
  /\ cycle < MaxCycles
  /\ \E p \in generate_random_prompt(prompts), t \in NextTimes(clock) :
       /\ prompt' = p
       /\ clock' = t
       /\ ts' = strftime(t)
       /\ cycle' = cycle + 1
       /\ stages' = <<>>
       /\ pubAtStart' = published
       /\ slept' = FALSE
       /\ \/ /\ procState' = [procState EXCEPT ![cycle + 1] = "running"]
             /\ toolPrompt' = p
             /\ genPc' = "g_stream"
             /\ lastResult' = "none"
             /\ active' = active \cup {cycle + 1}
          \/ /\ genPc' = "raised"
             /\ lastResult' = "raised"
             /\ UNCHANGED <<procState, toolPrompt, active>>
  /\ UNCHANGED <<running, processes, sentTerm, sentKill, mainPc, cleanupCalls,
                 cfgVars, prompts, fileVars>>

\* generate_object lines 327-339: the tool's output is streamed until it
\* ends; the tool may or may not have written temp_pc.
PointCloudDone ==
  /\ genPc = "g_stream"
  /\ \E wrote \in BOOLEAN :
       /\ tempDir' = IF wrote THEN WriteFile(tempDir, TempPc(ts), cycle) ELSE tempDir
       /\ \/ \E rc \in ExitCodes :
               /\ procState' = [procState EXCEPT ![cycle] = "exited"]
               /\ stages' = Append(stages, <<"pointcloud", rc>>)
               /\ UNCHANGED sentTerm
               /\ IF PointCloudOk(rc)
                  THEN /\ genPc' = "g_mesh"
                       /\ UNCHANGED <<lastResult, active, slept>>
                  ELSE Return("failure")
          \/ \E st \in {"running", "exited"} :
               \* lines 332-335: an exception while streaming; terminate()
               \* is sent and not waited for
               /\ procState' = [procState EXCEPT ![cycle] = st]
               /\ sentTerm' = sentTerm \cup {cycle}
               /\ UNCHANGED stages
               /\ Return("failure")
  /\ UNCHANGED <<running, processes, sentKill, mainPc, cleanupCalls, cfgVars, prompts,
                 published, cycle, clock, ts, prompt, toolPrompt, pubAtStart>>

\* generate_object lines 343-351: the mesh tool through run_command, in
\* pointe_dir (subprocess.run raises when that directory is gone).
MeshDone ==
  /\ genPc = "g_mesh"
  /\ \/ \E rc \in ExitCodes, wrote \in BOOLEAN :
          /\ tempDir' = IF wrote
                        THEN WriteFile(tempDir, with_suffix(TempPc(ts), "ply"), cycle)
                        ELSE tempDir
          /\ stages' = Append(stages, <<"mesh", rc>>)
          /\ IF MeshOk(rc)
             THEN /\ genPc' = "g_obj"
                  /\ UNCHANGED <<lastResult, active, slept>>
             ELSE Return("failure")
     \/ /\ Raise
        /\ UNCHANGED <<tempDir, stages>>
  /\ UNCHANGED <<mainVars, cfgVars, prompts, published, cycle, clock, ts, prompt,
                 toolPrompt, pubAtStart>>

\* convert_ply_to_obj (lines 379-407): convert.py is written to the temp
\* directory and run.  The script exits 0 only after loading the .ply and
\* exporting the .obj; a failing export may leave a file behind.
ObjDone ==
  /\ genPc = "g_obj"
  /\ LET ply == with_suffix(TempPc(ts), "ply")
         obj == with_suffix(ply, "obj")
         dir == WriteFile(tempDir, ConvertScript, cycle)
     IN \E rc \in ExitCodes, wrote \in BOOLEAN :
          /\ rc = 0 => wrote
          /\ wrote => dir[ply] # 0
          /\ tempDir' = IF wrote THEN WriteFile(dir, obj, cycle) ELSE dir
          /\ stages' = Append(stages, <<"obj", rc>>)
          /\ IF ConvertOk(rc)
             THEN /\ genPc' = "g_publish"
                  /\ UNCHANGED <<lastResult, active, slept>>
             ELSE Return("failure")
  /\ UNCHANGED <<mainVars, cfgVars, prompts, published, cycle, clock, ts, prompt,
                 toolPrompt, pubAtStart>>

\* generate_object lines 361-377: copy2 of obj_path over model1.obj (raises
\* when obj_path is gone), create_mtl, last_prompt.txt, cleanup_temp.
Publish ==
  /\ genPc = "g_publish"
  /\ LET obj == with_suffix(TempPc(ts), "obj")
     IN IF tempDir[obj] = 0
        THEN /\ Raise
             /\ UNCHANGED fileVars
        ELSE /\ published' = [obj |-> tempDir[obj], mtl |-> MtlContent,
                              prompt |-> PromptRecord(clock, prompt)]
             /\ tempDir' = cleanup_temp(tempDir)
             /\ Return("success")
  /\ UNCHANGED <<mainVars, cfgVars, prompts, cycle, clock, ts, prompt, toolPrompt,
                 stages, pubAtStart>>

\* generation_loop line 440: while self.running
LoopCheck ==
  /\ genPc = "loop"
  /\ genPc' = LoopNext(running)
  /\ UNCHANGED <<mainVars, cfgVars, prompts, fileVars, cycle, clock, ts, prompt,
                 toolPrompt, stages, lastResult, pubAtStart, slept, active>>

\* generation_loop line 441: time.sleep(interval) returns
SleepElapsed ==
  /\ genPc = "sleeping"
  /\ genPc' = "post_check"
  /\ slept' = TRUE
  /\ UNCHANGED <<mainVars, cfgVars, prompts, fileVars, cycle, clock, ts, prompt,
                 toolPrompt, stages, lastResult, pubAtStart, active>>

\* generation_loop line 442: if self.running
PostSleepCheck ==
  /\ genPc = "post_check"
  /\ genPc' = PostSleepNext(running)
  /\ UNCHANGED <<mainVars, cfgVars, prompts, fileVars, cycle, clock, ts, prompt,
                 toolPrompt, stages, lastResult, pubAtStart, slept, active>>

\* ----------------------------------------------------------- specifications

InitRun ==
  /\ running = TRUE
  /\ processes = <<>>
  /\ procState = [p \in ProcIds |-> "none"]
  /\ sentTerm = {}
  /\ sentKill = {}
  /\ mainPc = "run"
  /\ cleanupCalls = 0
  /\ genPc = "unstarted"
  /\ cycle = 0
  /\ clock = 0
  /\ ts = 0
  /\ prompt = <<>>
  /\ toolPrompt = <<>>
  /\ stages = <<>>
  /\ lastResult = "none"
  /\ pubAtStart = NothingPublished
  /\ slept = FALSE
  /\ active = {}
  /\ tempDir = [n \in FileNames |-> 0]
  /\ published = NothingPublished

\* The state after construction.
Init ==
  /\ config = ResolvedConfig
  /\ configBefore = ResolvedConfig
  /\ initPc = "constructed"
  /\ promptsFile \in RunFiles
  /\ prompts = load_prompts(promptsFile)
  /\ prompts \in PromptTables
  /\ InitRun

Next ==
  \/ StartViewerServer
  \/ StartGenThread
  \/ OpenBrowser
  \/ SignalHandler
  \/ FinallyCleanup
  \/ AtExitCleanup
  \/ ServerExits
  \/ GenStart
  \/ PointCloudDone
  \/ MeshDone
  \/ ObjDone
  \/ Publish
  \/ LoopCheck
  \/ SleepElapsed
  \/ PostSleepCheck

Spec == Init /\ [][Next]_vars

\* The constructor on every input configuration.
InitCtor ==
  /\ config \in InputConfigs
  /\ configBefore = config
  /\ initPc = "loaded"
  /\ promptsFile = ScenarioFile
  /\ prompts = LoadedPrompts
  /\ InitRun

NextCtor ==
  \/ AutoDetectPaths
  \/ SetupDirectories
  \/ SetupCleanup

SpecInit == InitCtor /\ [][NextCtor]_vars

\* __init__ line 27: load_prompts.
LoadPrompts ==
  /\ initPc = "config_loaded"
  /\ prompts' = load_prompts(promptsFile)
  /\ initPc' = "prompts_loaded"
  /\ UNCHANGED <<config, configBefore, promptsFile, mainVars, genVars, fileVars>>

\* A call of generate_random_prompt on the loaded sequences.
GenerateRandomPrompt ==
  /\ initPc = "prompts_loaded"
  /\ prompt' \in generate_random_prompt(prompts)
  /\ initPc' = "prompted"
  /\ UNCHANGED <<config, configBefore, promptsFile, prompts, mainVars, fileVars,
                 genPc, cycle, clock, ts, toolPrompt, stages, lastResult, pubAtStart,
                 slept, active>>

\* load_prompts and generate_random_prompt on every prompt file.
InitPrompts ==
  /\ config = ResolvedConfig
  /\ configBefore = ResolvedConfig
  /\ initPc = "config_loaded"
  /\ \E h \in Headers : promptsFile \in PromptFiles(h)
  /\ prompts = NoPrompts
  /\ InitRun

NextPrompts ==
  \/ LoadPrompts
  \/ GenerateRandomPrompt

SpecPrompts == InitPrompts /\ [][NextPrompts]_vars

\* ------------------------------------------------------------------- claims

InCycle == {"g_stream", "g_mesh", "g_obj", "g_publish"}
LoopAlive == {"g_start", "loop", "sleeping", "post_check"} \cup InCycle
HasNonZero(st) == \E i \in DOMAIN st : st[i][2] # 0
Returned == lastResult \in {"success", "failure"}

\* C1: when generate_object has returned, with success or with failure at
\* any stage, no file with the temp prefix is left in the temp directory.
C1_NoTempFilesAtCycleEnd == Returned => TempFiles(tempDir) = {}

\* C2: when a stage of this cycle ended with a non-zero exit code,
\* generate_object has returned failure and model1.obj, model1.mtl and
\* last_prompt.txt are what they were when the cycle started.
C2_NonZeroExitLeavesPublished ==
  HasNonZero(stages) =>
    /\ lastResult = "failure"
    /\ genPc \notin InCycle
    /\ published = pubAtStart

\* A cycle that failed in the OBJ conversion after an earlier cycle published.
C2_Witness ==
  /\ lastResult = "failure"
  /\ Len(stages) = 3
  /\ stages[3] = <<"obj", 1>>
  /\ pubAtStart # NothingPublished

\* C3: when generate_object has returned success, the three stages ran in
\* the order point cloud, mesh, OBJ and each exited zero, model1.obj holds
\* the file the converter wrote in this cycle, model1.mtl the default
\* material, and last_prompt.txt a timestamp line followed by the prompt
\* given to the generation tool in this cycle.
C3_SuccessPublishesThisCycle ==
  lastResult = "success" =>
    /\ stages = << <<"pointcloud", 0>>, <<"mesh", 0>>, <<"obj", 0>> >>
    /\ published.obj = cycle
    /\ published.mtl = MtlContent
    /\ Len(published.prompt) = 2
    /\ published.prompt[1] = isoformat(clock)
    /\ published.prompt[2] = toolPrompt
    /\ toolPrompt \in generate_random_prompt(prompts)

\* The second cycle succeeded, over what the first had published.
C3_Witness ==
  /\ lastResult = "success"
  /\ cycle = 2
  /\ pubAtStart # NothingPublished

\* C4: after a cycle that failed, by a non-zero exit code or by an
\* exception, and while the running flag is set, generation_loop is alive.
C4_LoopSurvivesFailedCycle ==
  (lastResult \in {"failure", "raised"} /\ running) => genPc \in LoopAlive

\* C5: at most one cycle is in flight; the first cycle starts without a
\* sleep, every later one starts only when the previous call of
\* generate_object has returned and a full sleep has elapsed since.
C5_OneCycleAtATime ==
  [][ /\ Cardinality(active') <= 1
      /\ cycle' > cycle =>
           /\ active = {}
           /\ cycle = 0 => ~slept /\ lastResult = "none"
           /\ cycle > 0 => slept /\ Returned ]_vars

\* The second cycle is in flight.
C5_Witness == cycle = 2 /\ active = {2} /\ genPc \in InCycle

\* C6: once the running flag is cleared, no call of generate_object starts.
C6_NoCycleAfterFlagCleared == [][cycle' > cycle => running]_vars

\* C7: every spawned process that is running is in self.processes.
C7_RunningProcessesTracked ==
  \A p \in ProcIds : procState[p] = "running" => p \in Range(processes)

\* A step of the main thread that is a call of cleanup.
IsCleanupStep == mainPc' # mainPc /\ mainPc' \in {"finally", "atexit", "exited", "raised"}

NotRunningTracked == {p \in Range(processes) : procState[p] # "running"}

CleanupPost ==
  /\ ~running
  /\ NotRunningTracked = Range(processes)
  /\ TempFiles(tempDir) = {}

\* C8: every call of cleanup, the first and the repeated ones, ends without
\* an error with the running flag cleared, no tracked process running and no
\* temp-prefixed file; a call made in the state an earlier call left
\* changes none of the three.
C8_CleanupIdempotent ==
  [][ IsCleanupStep =>
        /\ mainPc' # "raised"
        /\ cleanupCalls' = cleanupCalls + 1
        /\ CleanupPost'
        /\ (cleanupCalls > 0 /\ CleanupPost) =>
             /\ running' = running
             /\ NotRunningTracked' = NotRunningTracked
             /\ TempFiles(tempDir') = TempFiles(tempDir) ]_vars

\* cleanup ran three times (handler, finally, atexit) with a process to stop.
C8_Witness ==
  /\ cleanupCalls = 3
  /\ ServerProc \in sentTerm
  /\ CleanupPost

C10_SetKeysKept ==
  initPc # "loaded" =>
    \A k \in Keys : configBefore[k] \notin {Absent, Auto} => config[k] = configBefore[k]

\* The search of section k found nothing although the section ran: the
\* value of the key is not the one a successful search stores.
Miss(k, found) == NeedsDetect(configBefore, k) /\ config[k] # found

AnyMiss ==
  \/ Miss("pointe_dir", "/found/point-e")
  \/ Miss("viewer_dir", "/found/local3dviewer")
  \/ Miss("pointe_env", "/found/envs/pointe")

\* A key that a successful search would have set and the fallback did not.
LeftUnsetByFallback(k) ==
  /\ k = "viewer_models_dir"
  /\ Miss("viewer_dir", "/found/local3dviewer")
  /\ ~PathOk(config, k)

\* C11: after a path-detection miss and its fallback, setup_directories and
\* setup_cleanup do not fail on a configuration key the fallback left unset.
C11_MissIsNotFatal ==
  (initPc # "loaded" /\ AnyMiss) =>
    ~(initPc = "raised" /\ \E k \in Keys : LeftUnsetByFallback(k))

\* The header cells that name the three columns, whatever their case,
\* padding or plural.
NamesColumn(cell, col) ==
  CASE col = "description" -> cell[2] \in {"DESCRIPTIONS", "Description"}
    [] col = "material" -> cell[2] = "Material"
    [] col = "object" -> cell[2] = "Object"

\* Column i is the first column of the file that is named col.
IsColumn(f, i, col) ==
  /\ i \in DOMAIN f.header
  /\ NamesColumn(f.header[i], col)
  /\ \A j \in 1 .. i - 1 : ~NamesColumn(f.header[j], col)

\* Row r of the file has a text in each of the columns di, mi, oi.
CompleteRow(f, r, di, mi, oi) ==
  /\ {di, mi, oi} \subseteq DOMAIN f.rows[r]
  /\ \A i \in {di, mi, oi} : f.rows[r][i][2] # ""

Columns(f, col) == {i \in DOMAIN f.header : IsColumn(f, i, col)}

\* The prompts the file allows: one text of each column, from complete rows.
FilePrompts(f) ==
  IF \/ ~f.exists
     \/ \E col \in {"description", "material", "object"} : Columns(f, col) = {}
  THEN {}
  ELSE LET di == CHOOSE i \in Columns(f, "description") : TRUE
           mi == CHOOSE i \in Columns(f, "material") : TRUE
           oi == CHOOSE i \in Columns(f, "object") : TRUE
           complete == {r \in DOMAIN f.rows : CompleteRow(f, r, di, mi, oi)}
       IN {<<f.rows[r1][di][2], f.rows[r2][mi][2], f.rows[r3][oi][2]>> :
             r1 \in complete, r2 \in complete, r3 \in complete}

AllLoaded ==
  prompts.Descriptions # <<>> /\ prompts.Materials # <<>> /\ prompts.Objects # <<>>

\* C12: generate_random_prompt returns a value; when the three loaded
\* sequences are non-empty it is one description, one material and one
\* object, in that order, none of them empty, taken from the complete rows
\* of the file; otherwise, and whenever the file is missing, empty or lacks
\* a column or a complete row, it is "default object".
C12_PromptOrFallback ==
  /\ initPc = "prompts_loaded" => generate_random_prompt(prompts) # {}
  /\ initPc = "prompted" =>
       IF AllLoaded
       THEN /\ Len(prompt) = 3
            /\ prompt[1] \in Range(prompts.Descriptions)
            /\ prompt[2] \in Range(prompts.Materials)
            /\ prompt[3] \in Range(prompts.Objects)
            /\ \A i \in 1 .. 3 : prompt[i] # ""
            /\ prompt \in FilePrompts(promptsFile)
       ELSE /\ prompt = <<"default object">>
            /\ FilePrompts(promptsFile) = {}

\* A prompt whose description and object come from different rows of a file
\* with an extra column.
C12_Witness ==
  /\ initPc = "prompted"
  /\ Len(promptsFile.header) = 4
  /\ Len(prompt) = 3
  /\ prompt[1] \in Range(CellTexts[1])
  /\ prompt[3] \in Range(CellTexts[2])

\* The fallback on a file that has the three columns and no complete row.
C12_FallbackWitness ==
  /\ initPc = "prompted"
  /\ promptsFile.exists
  /\ \A col \in {"description", "material", "object"} : Columns(promptsFile, col) # {}
  /\ Len(promptsFile.rows) = 2
  /\ prompt = <<"default object">>

\* The temp files of the cycle in flight that a later stage still reads: the
\* point cloud before the mesh tool (line 343), the mesh before the
\* converter (line 355), the .obj before copy2 (line 362).
NeededTemp ==
  CASE genPc = "g_mesh" -> {TempPc(ts)}
    [] genPc = "g_obj" -> {with_suffix(TempPc(ts), "ply")}
    [] genPc = "g_publish" -> {with_suffix(TempPc(ts), "obj")}
    [] OTHER -> {}

\* C13: a temp file of the cycle in flight that a later stage still needs is
\* deleted only by a step of the generation thread itself (the cleanup_temp
\* that ends the cycle), never by a step of the main thread.
C13_TempOwnedByCycle ==
  [][\A n \in NeededTemp :
       (tempDir[n] # 0 /\ tempDir'[n] = 0) => genPc' # genPc]_vars

====
